---- MODULE Spec2Model ----
(***************************************************************************)
(* Model of fetch_pubsub_files.py: a main thread that bootstraps, opens a  *)
(* streaming subscription for a bounded time, cancels it on timeout and    *)
(* conditionally uploads its log; and the callback threads the subscriber  *)
(* client runs, one per delivered message, each executing handle_message.  *)
(***************************************************************************)
EXTENDS Integers, Sequences, FiniteSets, TLC

\* Number of messages the broker may deliver during one run.
MaxMsgs == 2

MsgIds == 1..MaxMsgs

VARIABLES
    main_pc,        \* position of the main thread (__main__ / fetch_messages)
    sub,            \* the streaming pull future: "none", "open", "cancelling"
                    \* (future.cancel() has returned, the client's shutdown
                    \* is under way), "cancelled" (shutdown finished), "failed"
    pc,             \* pc[m]: position of the callback thread handling message m:
                    \* "undelivered", "download", "transfer" (line 75 entered),
                    \* "write" (local file open for writing), "append", "ack",
                    \* "done" (returned), "raised" (ended by an exception)
    payload,        \* payload[m]: the data of message m
    outcome,        \* outcome[m]: what download_file did for m ("none" = never called)
    acks,           \* acks[m]: number of message.ack() calls on m
    err_logged,     \* err_logged[m]: logger.error was called while handling m
    files_fetched,  \* the list created at line 92, shared with the callbacks
    config,         \* the keys of the dict load_config returned ({} before)
    dest_blocked,   \* the local disk, as the run finds it: destination_path
                    \* cannot be made a directory (a regular file or a dangling
                    \* symlink is at it, or a regular file is one of its parents)
    dir_exists,     \* whether destination_path is a directory on the local disk
    local_files,    \* local path -> what the file holds, chunk by chunk: the
                    \* key of the object whose chunk is at that offset, or Hole
    fd,             \* fd[m]: the file m's callback holds open for writing:
                    \* "closed" (none), "open" (the file its path names),
                    \* "unlinked" (removed from the directory since m opened it)
    wpos,           \* wpos[m]: number of chunks m's callback has written
    returned_len,   \* history: Len(files_fetched) when line 106 returned, -1 before
    upload_calls    \* number of calls of upload_log_to_gcs

vars == <<main_pc, sub, pc, payload, outcome, acks, err_logged, files_fetched,
          config, dest_blocked, dir_exists, local_files, fd, wpos,
          returned_len, upload_calls>>

----------------------------------------------------------------------------
\* Strings are sequences of one-character strings, so that basename and join
\* are computed and not assumed.

Slash == "/"

KeyAX == <<"a", "/", "x">>
KeyBX == <<"b", "/", "x">>
KeyDir == <<"a", "/">>
KeyMissing == <<"m", "/", "z">>

\* config['destination_path']
DestinationPath == <<"d">>

\* The objects of config['gcs_bucket_name'].  KeyDir is a "folder" placeholder
\* object, KeyMissing is absent.
Bucket == {KeyAX, KeyBX, KeyDir}

\* The size of an object, in chunks of the size download_to_filename writes at
\* a time; the folder placeholder has no bytes.
ChunksOf(key) ==
    IF key = KeyAX THEN 1 ELSE IF key = KeyBX THEN 2 ELSE 0

\* The keys a config.json can have
ConfigKeys ==
    {"service_account_path", "gcs_bucket_name", "pubsub_subscription",
     "destination_path"}

\* Python values a JSON 'name' field can hold.
NoneVal == [t |-> "none", s |-> <<>>, n |-> 0]
StrVal(s) == [t |-> "str", s |-> s, n |-> 0]
IntVal(n) == [t |-> "int", s |-> <<>>, n |-> n]

\* A message payload: whether the bytes are UTF-8, whether the text is JSON,
\* the JSON value's type, and the 'name' member of a JSON object.
Payload(u, j, k, h, v) ==
    [utf8 |-> u, json |-> j, kind |-> k, has_name |-> h, name |-> v]

NoPayload == Payload(FALSE, FALSE, "none", FALSE, NoneVal)

Payloads ==
    { Payload(FALSE, FALSE, "none", FALSE, NoneVal),      \* b'\xff'
      Payload(TRUE, FALSE, "none", FALSE, NoneVal),       \* b'{not json'
      Payload(TRUE, TRUE, "array", FALSE, NoneVal),       \* b'[1]'
      Payload(TRUE, TRUE, "object", FALSE, NoneVal),      \* b'{"foo": "bar"}'
      Payload(TRUE, TRUE, "object", TRUE, NoneVal),       \* b'{"name": null}'
      Payload(TRUE, TRUE, "object", TRUE, StrVal(<<>>)),  \* b'{"name": ""}'
      Payload(TRUE, TRUE, "object", TRUE, IntVal(5)),     \* b'{"name": 5}'
      Payload(TRUE, TRUE, "object", TRUE, StrVal(KeyAX)),
      Payload(TRUE, TRUE, "object", TRUE, StrVal(KeyBX)),
      Payload(TRUE, TRUE, "object", TRUE, StrVal(KeyDir)),
      Payload(TRUE, TRUE, "object", TRUE, StrVal(KeyMissing)) }

\* One payload for each path through handle_message and download_file:
\* undecodable, no name, a name that is no string, a key naming a directory,
\* a key of no object, a key of an object.
PathPayloads ==
    { Payload(FALSE, FALSE, "none", FALSE, NoneVal),
      Payload(TRUE, TRUE, "object", FALSE, NoneVal),
      Payload(TRUE, TRUE, "object", TRUE, IntVal(5)),
      Payload(TRUE, TRUE, "object", TRUE, StrVal(KeyDir)),
      Payload(TRUE, TRUE, "object", TRUE, StrVal(KeyMissing)),
      Payload(TRUE, TRUE, "object", TRUE, StrVal(KeyAX)) }

----------------------------------------------------------------------------
\* Pure functions of handle_message and download_file.

\* message.data.decode('utf-8') raises UnicodeDecodeError
DecodeRaises(p) == ~p.utf8

\* json.loads(...) raises JSONDecodeError
LoadsRaises(p) == ~p.json

\* data.get('name') raises AttributeError unless data is a dict
GetRaises(p) == p.kind # "object"

\* data.get('name'): the member, or None when the dict has none
GetName(p) == IF p.has_name THEN p.name ELSE NoneVal

\* lines 81-82 raise
ParseRaises(p) == DecodeRaises(p) \/ LoadsRaises(p) \/ GetRaises(p)

\* Variant: `if file_name is not None:`
TruthyNotNone(v) == v.t # "none"

\* Python truthiness, the test of line 83
Truthy(v) ==
    CASE v.t = "none" -> FALSE
      [] v.t = "str" -> Len(v.s) > 0
      [] v.t = "int" -> v.n # 0

\* Index of the last "/" of s, 0 when there is none (str.rfind + 1)
RECURSIVE LastSlash(_, _)
LastSlash(s, i) ==
    IF i = 0 THEN 0
    ELSE IF s[i] = Slash THEN i ELSE LastSlash(s, i - 1)

\* os.path.basename
Basename(s) == SubSeq(s, LastSlash(s, Len(s)) + 1, Len(s))

\* os.path.join(a, b) for a relative b and an a that does not end in "/"
Join(a, b) == a \o <<Slash>> \o b

\* lines 65-68: a blob_name that is not a string is rejected (by bucket.blob at
\* line 65; os.path.basename at line 68 raises TypeError on it)
BasenameRaises(v) == v.t # "str"

\* lines 68-69
DestinationFile(v) == Join(DestinationPath, Basename(v.s))

\* A path whose last component is empty (trailing "/"), "." or ".." names a
\* directory: open(path, 'wb') raises IsADirectoryError
IsDirectoryPath(path) == Basename(path) \in {<<>>, <<".">>, <<".", ".">>}

----------------------------------------------------------------------------
\* Points where handle_message and download_file decide what happens next.

\* Variant: message.ack() placed inside the try block, skipped by an exception.
AfterExceptSkipsAck == "done"

\* Variant: the except clause re-raises, so the callback ends by exception.
AfterExceptPropagates == "raised"

\* Control after the except clause of lines 86-87: the handler falls through
\* to message.ack() at line 88.
AfterExcept == "ack"

\* Variant: message.ack() placed inside the if block of line 83.
AfterSkipNoAck == "done"

\* Control after the if of line 83 is skipped: message.ack() at line 88.
AfterSkip == "ack"

\* Variant: os.makedirs(destination_path) without exist_ok.
MakedirsRaisesIfExists(exists, blocked) == exists \/ blocked

\* os.makedirs(destination_path, exist_ok=True) raises (FileExistsError,
\* NotADirectoryError) when the path cannot be made a directory, and not
\* when it is one already, whether or not another thread created it first.
MakedirsRaises(exists, blocked) == blocked

\* Variant: a key already in the list is not appended again.
ListAppendOnce(lst, name) ==
    IF \E i \in 1..Len(lst) : lst[i] = name THEN lst ELSE Append(lst, name)

\* files_fetched.append(file_name): one atomic list operation
ListAppend(lst, name) == Append(lst, name)

\* Variant: os.makedirs is not called.
DirAfterMakedirsSkipped(exists) == exists

\* Whether destination_path exists after os.makedirs(..., exist_ok=True)
DirAfterMakedirs(exists) == TRUE

\* The content of a file is the sequence of its chunks, each named by the key
\* of the object it was written from; Hole is a chunk of NUL bytes, left by a
\* write beyond the end of the file.
Empty == <<>>
Hole == <<"NUL">>

\* The content of object `key`
ContentOf(key) == [i \in 1..ChunksOf(key) |-> key]

\* `content` after a chunk of object `key` is written at chunk offset i
WriteAt(content, i, key) ==
    [j \in 1..(IF Len(content) > i THEN Len(content) ELSE i) |->
        IF j = i THEN key
        ELSE IF j <= Len(content) THEN content[j]
        ELSE Hole]

\* blob.download_to_filename(destination_file): the outcome for object `key`
\* written to `path`, `fault` being a network or permission failure.
TransferOutcome(key, path, fault) ==
    IF IsDirectoryPath(path) THEN "is_directory"
    ELSE IF key \notin Bucket THEN "not_found"
    ELSE IF fault THEN "fault"
    ELSE "ok"

\* Variant: an existing destination is kept and the content goes to a
\* numbered copy beside it.
WriteFileNoClobber(files, path, content) ==
    LET target == IF path \in DOMAIN files THEN path \o <<"1">> ELSE path
    IN  [q \in (DOMAIN files) \cup {target} |->
            IF q = target THEN content ELSE files[q]]

\* The local file system with `path` holding `content`: the file is created
\* or overwritten.
WriteFile(files, path, content) ==
    [q \in (DOMAIN files) \cup {path} |-> IF q = path THEN content ELSE files[q]]

\* The local file system without `path` (os.remove)
RemoveFile(files, path) == [q \in (DOMAIN files) \ {path} |-> files[q]]

\* The message's key and the local path download_file gives it
KeyOf(m) == GetName(payload[m]).s
PathOf(m) == DestinationFile(GetName(payload[m]))

\* The callbacks other than m that hold the file named `path` open
WritersOn(m, path) ==
    {j \in MsgIds \ {m} :
        pc[j] = "write" /\ PathOf(j) = path /\ fd[j] = "open"}

----------------------------------------------------------------------------
Init ==
    /\ main_pc = "load_config"
    /\ sub = "none"
    /\ pc = [m \in MsgIds |-> "undelivered"]
    /\ payload = [m \in MsgIds |-> NoPayload]
    /\ outcome = [m \in MsgIds |-> "none"]
    /\ acks = [m \in MsgIds |-> 0]
    /\ err_logged = [m \in MsgIds |-> FALSE]
    /\ files_fetched = <<>>
    /\ config = {}
    /\ dest_blocked \in BOOLEAN
    /\ dir_exists = FALSE
    /\ local_files = <<>>
    /\ fd = [m \in MsgIds |-> "closed"]
    /\ wpos = [m \in MsgIds |-> 0]
    /\ returned_len = -1
    /\ upload_calls = 0

mainVars == <<main_pc, sub, returned_len, upload_calls, config>>
diskVars == <<dest_blocked, dir_exists, local_files, fd, wpos>>

----------------------------------------------------------------------------
\* The callback threads.

\* The subscriber client calls callback(message) on one of its threads, and
\* does so until the streaming pull has shut down: future.cancel() only asks
\* for the shutdown, which the client carries out on a thread of its own, so a
\* callback can still begin after line 104 has returned.  Messages are
\* numbered in the order of delivery.  The thread runs handle_message up to the test of line
\* 83 (lines 81-83, and 86-87 when they raise), which touches nothing shared.
DeliverFrom(m, data) ==
    /\ sub \in {"open", "cancelling"}
    /\ pc[m] = "undelivered"
    /\ \A k \in MsgIds : k < m => pc[k] # "undelivered"
    /\ \E p \in data :
         /\ payload' = [payload EXCEPT ![m] = p]
         /\ IF ParseRaises(p)
            THEN /\ err_logged' = [err_logged EXCEPT ![m] = TRUE]
                 /\ pc' = [pc EXCEPT ![m] = AfterExcept]
            ELSE /\ err_logged' = err_logged
                 /\ pc' = [pc EXCEPT ![m] =
                             IF Truthy(GetName(p)) THEN "download" ELSE AfterSkip]
    /\ UNCHANGED <<mainVars, diskVars, outcome, acks, files_fetched>>

Deliver(m) == DeliverFrom(m, Payloads)

\* A delivery of one of the payloads of PathPayloads
DeliverPath(m) == DeliverFrom(m, PathPayloads)

\* line 84 and download_file, lines 64-74: the arguments of the call are
\* looked up in config, then the path is computed and the directory made
DownloadPrepare(m) ==
    /\ pc[m] = "download"
    /\ IF ~({"gcs_bucket_name", "destination_path"} \subseteq config)
       THEN /\ outcome' = outcome
            /\ err_logged' = [err_logged EXCEPT ![m] = TRUE]
            /\ pc' = [pc EXCEPT ![m] = AfterExcept]
            /\ dir_exists' = dir_exists
       ELSE IF BasenameRaises(GetName(payload[m]))
       THEN /\ outcome' = [outcome EXCEPT ![m] = "type_error"]
            /\ err_logged' = [err_logged EXCEPT ![m] = TRUE]
            /\ pc' = [pc EXCEPT ![m] = AfterExcept]
            /\ dir_exists' = dir_exists
       ELSE IF MakedirsRaises(dir_exists, dest_blocked)
       THEN /\ outcome' = [outcome EXCEPT ![m] = "file_exists"]
            /\ err_logged' = [err_logged EXCEPT ![m] = TRUE]
            /\ pc' = [pc EXCEPT ![m] = AfterExcept]
            /\ dir_exists' = dir_exists
       ELSE /\ outcome' = [outcome EXCEPT ![m] = "started"]
            /\ err_logged' = err_logged
            /\ pc' = [pc EXCEPT ![m] = "transfer"]
            /\ dir_exists' = DirAfterMakedirs(dir_exists)
    /\ UNCHANGED <<mainVars, dest_blocked, local_files, fd, wpos, payload, acks,
                   files_fetched>>

\* download_file, line 75: blob.download_to_filename opens the destination
\* with mode 'wb', which creates or truncates it (and 86-87 when that raises).
\* Descriptors other threads hold on the file stay on it.
TransferOpen(m) ==
    /\ pc[m] = "transfer"
    /\ LET path == PathOf(m)
       IN  IF IsDirectoryPath(path)
           THEN /\ outcome' = [outcome EXCEPT ![m] = "is_directory"]
                /\ err_logged' = [err_logged EXCEPT ![m] = TRUE]
                /\ pc' = [pc EXCEPT ![m] = AfterExcept]
                /\ local_files' = local_files
                /\ fd' = fd
           ELSE /\ outcome' = outcome
                /\ err_logged' = err_logged
                /\ pc' = [pc EXCEPT ![m] = "write"]
                /\ local_files' = WriteFile(local_files, path, Empty)
                /\ fd' = [fd EXCEPT ![m] = "open"]
    /\ UNCHANGED <<mainVars, dest_blocked, dir_exists, wpos, payload, acks,
                   files_fetched>>

\* download_file, line 75: inside download_to_filename the next chunk of the
\* object arrives and is written at the descriptor's offset; it is in the
\* file from then on.  A file removed meanwhile by another thread stays
\* removed: the bytes go to the unlinked file.
WriteChunk(m) ==
    /\ pc[m] = "write"
    /\ KeyOf(m) \in Bucket
    /\ wpos[m] < ChunksOf(KeyOf(m))
    /\ wpos' = [wpos EXCEPT ![m] = @ + 1]
    /\ local_files' =
          IF fd[m] = "open"
          THEN WriteFile(local_files, PathOf(m),
                         WriteAt(local_files[PathOf(m)], wpos[m] + 1, KeyOf(m)))
          ELSE local_files
    /\ UNCHANGED <<mainVars, dest_blocked, dir_exists, fd, pc, payload, outcome,
                   acks, err_logged, files_fetched>>

\* download_file, line 75: download_to_filename ends.  It returns when every
\* chunk is written and the file closed; or the request fails (and 86-87
\* then): at once for an object that does not exist, at any point for a
\* network or permission failure.  After a failure the client library leaves
\* the file as it is or removes the directory entry (whichever file it names
\* by then), depending on the error and on the library's version.
Transfer(m) ==
    /\ pc[m] = "write"
    /\ \E fault \in BOOLEAN :
         LET key == KeyOf(m)
             path == PathOf(m)
             res == TransferOutcome(key, path, fault)
         IN  /\ res = "ok" => wpos[m] = ChunksOf(key)
             /\ outcome' = [outcome EXCEPT ![m] = res]
             /\ wpos' = [wpos EXCEPT ![m] = 0]
             /\ IF res = "ok"
                THEN /\ local_files' = local_files
                     /\ fd' = [fd EXCEPT ![m] = "closed"]
                     /\ err_logged' = err_logged
                     /\ pc' = [pc EXCEPT ![m] = "append"]
                ELSE /\ \E removed \in BOOLEAN :
                          IF removed
                          THEN /\ local_files' = RemoveFile(local_files, path)
                               /\ fd' = [j \in MsgIds |->
                                            IF j = m THEN "closed"
                                            ELSE IF j \in WritersOn(m, path)
                                            THEN "unlinked"
                                            ELSE fd[j]]
                          ELSE /\ local_files' = local_files
                               /\ fd' = [fd EXCEPT ![m] = "closed"]
                     /\ err_logged' = [err_logged EXCEPT ![m] = TRUE]
                     /\ pc' = [pc EXCEPT ![m] = AfterExcept]
    /\ UNCHANGED <<mainVars, dest_blocked, dir_exists, payload, acks,
                   files_fetched>>

\* handle_message, line 85
AppendKey(m) ==
    /\ pc[m] = "append"
    /\ files_fetched' = ListAppend(files_fetched, GetName(payload[m]).s)
    /\ pc' = [pc EXCEPT ![m] = "ack"]
    /\ UNCHANGED <<mainVars, diskVars, payload, outcome, acks, err_logged>>

\* handle_message, line 88
Ack(m) ==
    /\ pc[m] = "ack"
    /\ acks' = [acks EXCEPT ![m] = @ + 1]
    /\ pc' = [pc EXCEPT ![m] = "done"]
    /\ UNCHANGED <<mainVars, diskVars, payload, outcome, err_logged, files_fetched>>

Handler(m) ==
    \/ DownloadPrepare(m) \/ TransferOpen(m) \/ WriteChunk(m) \/ Transfer(m)
    \/ AppendKey(m) \/ Ack(m)

----------------------------------------------------------------------------
\* The main thread.

handlerVars == <<pc, payload, outcome, acks, err_logged, files_fetched, diskVars>>

\* line 110: load_config() returns the dict of config.json or raises
LoadConfig ==
    /\ main_pc = "load_config"
    /\ \/ /\ main_pc' = "initialize_clients"
          /\ \E c \in SUBSET ConfigKeys : config' = c
       \/ /\ main_pc' = "crash_config"
          /\ config' = config
    /\ UNCHANGED <<sub, returned_len, upload_calls, handlerVars>>

\* line 111: config['service_account_path'] raises KeyError, or
\* initialize_clients() returns the two clients or raises
InitializeClients ==
    /\ main_pc = "initialize_clients"
    /\ IF "service_account_path" \notin config
       THEN main_pc' = "crash_clients"
       ELSE \E ok \in BOOLEAN :
                main_pc' = IF ok THEN "setup_logger" ELSE "crash_clients"
    /\ UNCHANGED <<sub, returned_len, upload_calls, config, handlerVars>>

\* line 114: setup_logger() returns, or raises when ~/tmp cannot be made or
\* the log file cannot be opened
SetupLogger ==
    /\ main_pc = "setup_logger"
    /\ \E ok \in BOOLEAN :
         main_pc' = IF ok THEN "subscribe" ELSE "crash_logger"
    /\ UNCHANGED <<sub, returned_len, upload_calls, config, handlerVars>>

\* Variant: the configuration is loaded again after the subscription is opened.
SubscribeThenLoadConfig ==
    /\ main_pc = "subscribe"
    /\ sub' = "open"
    /\ \E ok \in BOOLEAN : main_pc' = IF ok THEN "waiting" ELSE "crash_config"
    /\ UNCHANGED <<returned_len, upload_calls, config, handlerVars>>

\* lines 117-119 and fetch_messages, lines 92-98: config['pubsub_subscription']
\* raises KeyError, or the list is created and the subscription opened
Subscribe ==
    /\ main_pc = "subscribe"
    /\ IF "pubsub_subscription" \notin config
       THEN /\ main_pc' = "crash_subscribe"
            /\ sub' = sub
       ELSE /\ sub' = "open"
            /\ main_pc' = "waiting"
    /\ UNCHANGED <<returned_len, upload_calls, config, handlerVars>>

\* fetch_messages, lines 101-103: future.result(timeout) raises TimeoutError
Timeout ==
    /\ main_pc = "waiting"
    /\ main_pc' = "cancel"
    /\ UNCHANGED <<sub, returned_len, upload_calls, config, handlerVars>>

\* Variant: the except clause of line 102 catches every exception.
StreamErrorCaught ==
    /\ main_pc = "waiting"
    /\ sub' = "failed"
    /\ main_pc' = "cancel"
    /\ UNCHANGED <<returned_len, upload_calls, config, handlerVars>>

\* fetch_messages, line 101: the streaming pull ends with another exception,
\* which no except clause catches
StreamError ==
    /\ main_pc = "waiting"
    /\ sub' = "failed"
    /\ main_pc' = "crash_stream"
    /\ UNCHANGED <<returned_len, upload_calls, config, handlerVars>>

\* Variant: the cancel (or a future.result() after it) blocks until the running
\* callbacks have returned.
CancelWaitsForHandlers ==
    /\ main_pc = "cancel"
    /\ \A m \in MsgIds : pc[m] \in {"undelivered", "done"}
    /\ sub' = "cancelling"
    /\ main_pc' = "return"
    /\ UNCHANGED <<returned_len, upload_calls, config, handlerVars>>

\* fetch_messages, line 104: future.cancel() asks the subscriber client to
\* shut the streaming pull down and returns.  It waits neither for the
\* shutdown (no future.result() follows it) nor for the callback threads.
Cancel ==
    /\ main_pc = "cancel"
    /\ sub' = "cancelling"
    /\ main_pc' = "return"
    /\ UNCHANGED <<returned_len, upload_calls, config, handlerVars>>

\* The shutdown that line 104 asked for, carried out by a thread of the
\* subscriber client while the main thread goes on: from here on no callback
\* is started.  The callbacks already running are not joined.
StreamShutdown ==
    /\ sub = "cancelling"
    /\ sub' = "cancelled"
    /\ UNCHANGED <<main_pc, returned_len, upload_calls, config, handlerVars>>

\* fetch_messages, line 106
Return ==
    /\ main_pc = "return"
    /\ returned_len' = Len(files_fetched)
    /\ main_pc' = "check"
    /\ UNCHANGED <<sub, upload_calls, config, handlerVars>>

\* __main__, lines 127-131
CheckFetched ==
    /\ main_pc = "check"
    /\ main_pc' = IF Len(files_fetched) > 0 THEN "upload" ELSE "done"
    /\ UNCHANGED <<sub, returned_len, upload_calls, config, handlerVars>>

\* __main__, line 129: config['gcs_bucket_name'] raises KeyError, or
\* upload_log_to_gcs is called and returns or raises
UploadLog ==
    /\ main_pc = "upload"
    /\ IF "gcs_bucket_name" \notin config
       THEN /\ upload_calls' = upload_calls
            /\ main_pc' = "crash_upload"
       ELSE /\ upload_calls' = upload_calls + 1
            /\ \E ok \in BOOLEAN :
                 main_pc' = IF ok THEN "done" ELSE "crash_upload"
    /\ UNCHANGED <<sub, returned_len, config, handlerVars>>

Main ==
    \/ LoadConfig \/ InitializeClients \/ SetupLogger \/ Subscribe
    \/ Timeout \/ StreamError \/ Cancel \/ Return \/ CheckFetched \/ UploadLog

----------------------------------------------------------------------------
Next ==
    \/ LoadConfig
    \/ InitializeClients
    \/ SetupLogger
    \/ Subscribe
    \/ Timeout
    \/ StreamError
    \/ Cancel
    \/ StreamShutdown
    \/ Return
    \/ CheckFetched
    \/ UploadLog
    \/ \E m \in MsgIds : Deliver(m)
    \/ \E m \in MsgIds : DownloadPrepare(m)
    \/ \E m \in MsgIds : TransferOpen(m)
    \/ \E m \in MsgIds : WriteChunk(m)
    \/ \E m \in MsgIds : Transfer(m)
    \/ \E m \in MsgIds : AppendKey(m)
    \/ \E m \in MsgIds : Ack(m)

Spec == Init /\ [][Next]_vars

\* The program on the payloads of PathPayloads, for the progress properties,
\* which depend on the path a handler takes and not on the key it carries.
NextPath ==
    \/ LoadConfig
    \/ InitializeClients
    \/ SetupLogger
    \/ Subscribe
    \/ Timeout
    \/ StreamError
    \/ Cancel
    \/ StreamShutdown
    \/ Return
    \/ CheckFetched
    \/ UploadLog
    \/ \E m \in MsgIds : DeliverPath(m)
    \/ \E m \in MsgIds : DownloadPrepare(m)
    \/ \E m \in MsgIds : TransferOpen(m)
    \/ \E m \in MsgIds : WriteChunk(m)
    \/ \E m \in MsgIds : Transfer(m)
    \/ \E m \in MsgIds : AppendKey(m)
    \/ \E m \in MsgIds : Ack(m)

\* A callback thread that can run does run, and its download returns or raises
\* in finite time; nothing is assumed of the main thread.
FairSpec ==
    /\ Init /\ [][NextPath]_vars
    /\ \A m \in MsgIds : WF_vars(Handler(m))

\* The main thread runs when it can, and the wait of line 101 ends (by the
\* timer of future.result or by an error of the stream); nothing is assumed
\* of the callback threads, whose downloads may block for ever.
MainFairSpec ==
    /\ Init /\ [][NextPath]_vars
    /\ WF_vars(Main)

----------------------------------------------------------------------------
\* Vocabulary of the properties.

Delivered(m) == pc[m] # "undelivered"
InFlight(m) == pc[m] \in {"download", "transfer", "write", "append", "ack"}
Returned(m) == pc[m] = "done"

RaisedOutcomes == {"type_error", "file_exists", "is_directory", "not_found", "fault"}

\* Number of entries of the fetched list equal to `name`
Count(name) == Cardinality({i \in 1..Len(files_fetched) : files_fetched[i] = name})

\* Number of messages naming `name` whose download succeeded
OkCount(name) ==
    Cardinality({m \in MsgIds : outcome[m] = "ok" /\ payload[m].name = StrVal(name)})

\* fetch_messages has returned its list to __main__
FetchReturned == returned_len # -1

----------------------------------------------------------------------------
\* C1: every message delivered to the callback is acknowledged exactly once by
\* handle_message, whatever the outcome: a handler that has returned has called
\* ack once, one that has not yet reached line 88 has called it zero times, no
\* handler ends without returning, and no message is ever acknowledged twice.
C1_AckExactlyOnce ==
    \A m \in MsgIds :
        /\ acks[m] <= 1
        /\ pc[m] # "raised"
        /\ Returned(m) => acks[m] = 1
        /\ ~Returned(m) => acks[m] = 0

\* Two handlers have returned, one after a successful download and one after
\* a failed one, and a third outcome (unparsable payload) is acknowledged too.
C1_Witness ==
    \E m, k \in MsgIds :
        /\ Returned(m) /\ outcome[m] = "ok" /\ acks[m] = 1
        /\ Returned(k) /\ acks[k] = 1
        /\ \/ outcome[k] = "not_found"
           \/ ~payload[k].utf8

----------------------------------------------------------------------------
\* The payloads C2 is about, stated from the payload and not from the parser:
\* not UTF-8, not JSON, not a JSON object, no 'name', or a null or empty 'name'.
NoUsableName(p) ==
    \/ ~p.utf8
    \/ ~p.json
    \/ p.kind # "object"
    \/ ~p.has_name
    \/ p.name = NoneVal
    \/ p.name = StrVal(<<>>)

\* C2: for a message whose payload is not valid UTF-8 JSON, is not an object,
\* or has no or a falsy 'name', handle_message never calls download_file, adds
\* nothing to the fetched list (the list has at most one entry per message
\* with a usable name, and no empty entry), and acknowledges the message.
C2_NoNameNoDownload ==
    /\ \A m \in MsgIds :
          (Delivered(m) /\ NoUsableName(payload[m])) =>
              /\ outcome[m] = "none"
              /\ pc[m] \in {"ack", "done"}
              /\ Returned(m) => acks[m] = 1
    /\ Len(files_fetched) <=
          Cardinality({m \in MsgIds : Delivered(m) /\ ~NoUsableName(payload[m])})
    /\ \A i \in 1..Len(files_fetched) : Len(files_fetched[i]) > 0

\* A message {"foo": "bar"} and a message {"name": ""} have been handled and
\* acknowledged, with the list still empty.
C2_Witness ==
    \E m, k \in MsgIds :
        /\ Returned(m) /\ payload[m].kind = "object" /\ ~payload[m].has_name
        /\ Returned(k) /\ payload[k].name = StrVal(<<>>) /\ payload[k].has_name
        /\ acks[m] = 1 /\ acks[k] = 1
        /\ files_fetched = <<>>

----------------------------------------------------------------------------
\* C4: when download_file raises for a message, the error is logged inside
\* handle_message, the handler goes on to acknowledge the message and returns
\* (it never ends by exception), the key is not appended (the list holds a key
\* no more often than downloads of it succeeded), and every other started
\* handler can still take its next step.
C4_DownloadErrorIsolated ==
    \A m \in MsgIds :
        outcome[m] \in RaisedOutcomes =>
            /\ err_logged[m]
            /\ pc[m] \in {"ack", "done"}
            /\ Returned(m) => acks[m] = 1
            /\ payload[m].name.t = "str" =>
                   Count(payload[m].name.s) <= OkCount(payload[m].name.s)
            /\ \A k \in MsgIds : InFlight(k) => ENABLED Handler(k)

\* The download of the first message raised (object not found); the message
\* delivered after it was downloaded, recorded and acknowledged.
C4_Witness ==
    \E m, k \in MsgIds :
        /\ m < k
        /\ Returned(m) /\ outcome[m] = "not_found" /\ acks[m] = 1
        /\ Returned(k) /\ outcome[k] = "ok" /\ acks[k] = 1
        /\ files_fetched = <<payload[k].name.s>>

----------------------------------------------------------------------------
\* A well-formed payload whose 'name' is the key of an object of the bucket.
NamesExistingObject(p) ==
    /\ p.utf8 /\ p.json /\ p.kind = "object" /\ p.has_name
    /\ p.name.t = "str"
    /\ p.name.s \in Bucket

\* C3 (as claimed): once fetch_messages has returned, for every well-formed
\* message received during the listening window that names an existing object
\* (and whose transfer met no network or permission failure) the list holds
\* the key and a local file exists at destination_path joined with the key's
\* final path segment.
C3_FetchedAndStored ==
    FetchReturned =>
        \A m \in MsgIds :
            (Delivered(m) /\ NamesExistingObject(payload[m]) /\ outcome[m] # "fault") =>
                /\ Count(payload[m].name.s) >= 1
                /\ Join(DestinationPath, Basename(payload[m].name.s))
                       \in DOMAIN local_files

----------------------------------------------------------------------------
\* C5 (as claimed): upload_log_to_gcs is called at most once, and never in a
\* run where the fetched list was empty when fetch_messages returned.
C5_UploadOnlyIfFetched ==
    /\ upload_calls <= 1
    /\ returned_len = 0 => upload_calls = 0

----------------------------------------------------------------------------
\* C6 (as claimed): a failure of the log upload does not end the process
\* through an uncaught exception.
C6_UploadFailureNotFatal == main_pc # "crash_upload"

----------------------------------------------------------------------------
\* C7 (as claimed): when fetch_messages has returned its list, no
\* handle_message invocation is between the start of its download and its ack.
C7_NoHandlerInFlightAtReturn ==
    FetchReturned => \A m \in MsgIds : ~InFlight(m)

----------------------------------------------------------------------------
\* C8: every message that entered handle_message (before the timeout or
\* after it) is eventually acknowledged, whatever the
\* main thread does meanwhile: timeout and cancellation stop no handler.
\* A message once delivered stays delivered and an ack is never undone, and
\* the messages are finitely many: so this is to say that from some point on
\* every message that was delivered has been acknowledged.
C8_StartedEventuallyAcked ==
    <>[](\A m \in MsgIds : Delivered(m) => acks[m] = 1)

\* The main thread cancelled on timeout, got an empty list back and finished,
\* and a message whose handler was then still running has been downloaded,
\* recorded and acknowledged since.
C8_Witness ==
    /\ sub = "cancelled"
    /\ returned_len = 0
    /\ main_pc \in {"done", "crash_upload"}
    /\ \E m \in MsgIds : outcome[m] = "ok" /\ Returned(m) /\ acks[m] = 1

----------------------------------------------------------------------------
\* Positions of the main thread after line 104.
AfterCancel == {"return", "check", "upload", "done", "crash_upload"}

\* future.cancel() has been called and has returned.
CancelRequested == sub \in {"cancelling", "cancelled"}

\* C9 (as claimed): once the main thread is past future.cancel() no
\* handle_message invocation can begin (no message is delivered to the
\* callback any more), while every invocation already in flight can take its
\* next step and so finish.
C9_NoDeliveryAfterCancel ==
    (main_pc \in AfterCancel) =>
        /\ ~ENABLED (\E m \in MsgIds : Deliver(m))
        /\ \A m \in MsgIds : InFlight(m) => ENABLED Handler(m)

----------------------------------------------------------------------------
\* C10: under concurrent callbacks no append to the shared list is lost or
\* corrupted: the list holds each key exactly as often as handlers that
\* downloaded it have executed line 85, so one entry per successful download
\* once the handlers have returned; and no handler fails on creating the
\* destination directory because another handler created it first: creating
\* it fails only where the path cannot be made a directory at all.
C10_ConcurrentHandlersSafe ==
    /\ \A name \in Bucket :
          Count(name) =
              Cardinality({m \in MsgIds : /\ outcome[m] = "ok"
                                          /\ pc[m] \in {"ack", "done"}
                                          /\ payload[m].name = StrVal(name)})
    /\ Len(files_fetched) =
          Cardinality({m \in MsgIds : outcome[m] = "ok" /\ pc[m] \in {"ack", "done"}})
    /\ \A m \in MsgIds : outcome[m] = "file_exists" => dest_blocked /\ ~dir_exists

\* Two handlers ran in parallel through directory creation and download: one
\* has appended its key while the other is about to append.
C10_Witness ==
    \E m, k \in MsgIds :
        /\ m # k
        /\ outcome[m] = "ok" /\ pc[m] = "ack"
        /\ outcome[k] = "ok" /\ pc[k] = "append"
        /\ Len(files_fetched) = 1

----------------------------------------------------------------------------
\* Ends of the main thread by an exception raised before the subscription is
\* opened: lines 110, 111, 114 and 119.
BootstrapCrashes ==
    {"crash_config", "crash_clients", "crash_logger", "crash_subscribe"}

\* C11: when load_config or initialize_clients (or a later step of the
\* bootstrap) has failed the process has ended (the main thread takes no
\* further step) and nothing else ever happened or happens: no subscription,
\* no message handled or acknowledged, no download, no directory or file
\* created, no log upload.
C11_BootstrapFailureFatal ==
    main_pc \in BootstrapCrashes =>
        /\ sub = "none"
        /\ \A m \in MsgIds :
              pc[m] = "undelivered" /\ acks[m] = 0 /\ outcome[m] = "none"
        /\ files_fetched = <<>>
        /\ ~dir_exists
        /\ DOMAIN local_files = {}
        /\ upload_calls = 0
        /\ ~ENABLED Next

\* initialize_clients has raised after load_config succeeded.
C11_Witness == main_pc = "crash_clients"

----------------------------------------------------------------------------
\* C12: the listening window is bounded by the caller's timeout.  Once
\* future.result has timed out fetch_messages returns, whatever was delivered
\* and even if the callback threads never take another step (a handler
\* blocked in its download), and the run then ends; and as long as no message
\* has come in the list returned is empty and no log upload is made or about
\* to be made, so that a run with zero incoming messages returns an empty list
\* and ends with the log upload skipped.
C12_WindowBounded ==
    /\ (main_pc = "cancel") ~> FetchReturned
    /\ (main_pc = "cancel") ~> (main_pc \in {"done", "crash_upload"})
    /\ []((\A m \in MsgIds : pc[m] = "undelivered") =>
            /\ returned_len \in {-1, 0}
            /\ upload_calls = 0
            /\ main_pc \notin {"upload", "crash_upload"})

\* fetch_messages has returned an empty list and the run has ended without
\* an upload while a handler is still inside its download.
C12_Witness ==
    /\ main_pc = "done"
    /\ returned_len = 0
    /\ upload_calls = 0
    /\ \E m \in MsgIds : pc[m] = "write"

----------------------------------------------------------------------------
\* Message m's download_file call has opened its destination file.
Opened(m) == pc[m] = "write" \/ outcome[m] \in {"ok", "not_found", "fault"}

\* C13: download_file is idempotent for a key.  When download_file has run to
\* success two or more times for one key, and these successful runs are all
\* that ever opened a local file, the destination directory is as it was after
\* the first of them: the single file at the key's path, holding the object's
\* content, and no other file.
C13_DownloadIdempotent ==
    \A m, k \in MsgIds :
        ( /\ m # k
          /\ outcome[m] = "ok" /\ outcome[k] = "ok"
          /\ KeyOf(m) = KeyOf(k)
          /\ \A j \in MsgIds :
                Opened(j) => outcome[j] = "ok" /\ KeyOf(j) = KeyOf(m) )
        => /\ dir_exists
           /\ DOMAIN local_files = {PathOf(m)}
           /\ local_files[PathOf(m)] = ContentOf(KeyOf(m))

C13_Witness ==
    /\ \A m \in MsgIds : outcome[m] = "ok" /\ KeyOf(m) = KeyAX /\ pc[m] = "done"
    /\ DOMAIN local_files = {DestinationFile(StrVal(KeyAX))}
    /\ local_files[DestinationFile(StrVal(KeyAX))] = ContentOf(KeyAX)

----------------------------------------------------------------------------
\* Message m's handler has called download_file, and the call has raised in
\* lines 64-72 or has gone past them.
DownloadCalled(m) == outcome[m] # "none"

\* C14, as stated: the destination directory exists after every download_file
\* call, whether the call succeeded or failed.
C14_DirExistsAfterEveryCall ==
    \A m \in MsgIds :
        (DownloadCalled(m) /\ pc[m] \notin {"download", "transfer", "write"})
            => dir_exists

\* C14, amended: download_file creates the destination directory before it
\* attempts the transfer, so the directory exists whenever a transfer is
\* about to start, is under way, or has ended in success or in failure; and
\* it exists after every download_file call whose key is a string and in
\* which os.makedirs did not itself raise.
C14_DirExistsBeforeTransfer ==
    \A m \in MsgIds :
        /\ ( \/ pc[m] \in {"transfer", "write"}
             \/ outcome[m] \in {"ok", "not_found", "fault", "is_directory"} )
           => dir_exists
        /\ ( /\ DownloadCalled(m)
             /\ GetName(payload[m]).t = "str"
             /\ outcome[m] # "file_exists" ) => dir_exists

C14_Witness ==
    /\ dir_exists
    /\ \E m \in MsgIds : outcome[m] \in {"not_found", "fault"}
    /\ \A m \in MsgIds : outcome[m] # "ok"
    /\ \E m \in MsgIds : outcome[m] = "type_error"

----------------------------------------------------------------------------
\* C15 (as claimed): whenever a download succeeded during the run, the log
\* upload is attempted: a run whose main thread has ended normally without
\* calling upload_log_to_gcs has no successful download.
C15_UploadWheneverFetched ==
    (main_pc = "done" /\ upload_calls = 0) =>
        \A m \in MsgIds : outcome[m] # "ok"

----------------------------------------------------------------------------
\* The messages whose download succeeded, and those of them whose handler has
\* executed the append of line 85
Succeeded == {m \in MsgIds : outcome[m] = "ok"}
Recorded == {m \in Succeeded : pc[m] \in {"ack", "done"}}

\* C16, as stated: in every reachable state the length of the fetched list
\* equals the number of downloads that have succeeded so far.
C16_LengthEqualsSuccesses == Len(files_fetched) = Cardinality(Succeeded)

\* C16, amended: within one message's handling the order is download, append,
\* ack.  Every entry of the fetched list is the key of a download that
\* succeeded; the list holds one entry per successful download whose handler
\* has reached line 85, a key delivered twice being recorded twice, so its
\* length never exceeds the number of successful downloads and falls short of
\* it only by the handlers that are between lines 84 and 85; and a message is
\* acknowledged only after its download attempt and its append.
C16_DownloadAppendAck ==
    /\ \A i \in 1..Len(files_fetched) :
          \E m \in Succeeded : KeyOf(m) = files_fetched[i]
    /\ \A m \in MsgIds :
          Count(KeyOf(m)) = Cardinality({k \in Recorded : KeyOf(k) = KeyOf(m)})
    /\ Len(files_fetched) = Cardinality(Recorded)
    /\ Succeeded \ Recorded = {m \in MsgIds : pc[m] = "append"}
    /\ \A m \in MsgIds :
          /\ pc[m] \in {"download", "transfer", "write", "append", "ack"}
                => acks[m] = 0
          /\ acks[m] > 0 => outcome[m] # "started" /\ pc[m] = "done"

C16_Witness ==
    /\ files_fetched = <<KeyAX, KeyAX>>
    /\ \A m \in MsgIds : outcome[m] = "ok" /\ acks[m] = 1

----------------------------------------------------------------------------
\* C17 (as claimed): when downloads of two distinct keys with the same final
\* path segment have both succeeded and been recorded, and nothing else has
\* opened a local file, both keys are in the fetched list and there is one
\* local file, at their common path, holding the content of one of the two
\* objects (that of the download that finished last).
C17_SameBasenameLastWins ==
    \A m, k \in MsgIds :
        ( /\ m \in Recorded /\ k \in Recorded
          /\ KeyOf(m) # KeyOf(k)
          /\ PathOf(m) = PathOf(k)
          /\ \A j \in MsgIds :
                Opened(j) => j \in Recorded /\ PathOf(j) = PathOf(m) )
        => /\ Count(KeyOf(m)) >= 1 /\ Count(KeyOf(k)) >= 1
           /\ DOMAIN local_files = {PathOf(m)}
           /\ local_files[PathOf(m)] \in {ContentOf(KeyOf(j)) : j \in Recorded}

----------------------------------------------------------------------------
\* C18: fetch_messages cancels the subscription exactly when the wait ended by
\* timeout: the subscription is cancelled if and only if the main thread has
\* gone through the except clause of lines 102-104, which it does before it
\* returns the list.  When the streaming future ended with another exception
\* the subscription is never cancelled, no list is returned, no log upload is
\* made, whatever had been fetched, and the main thread takes no further step.
C18_CancelOnlyOnTimeout ==
    /\ CancelRequested <=> main_pc \in AfterCancel
    /\ FetchReturned => CancelRequested
    /\ sub = "failed" <=> main_pc = "crash_stream"
    /\ main_pc = "crash_stream" =>
          /\ ~FetchReturned
          /\ upload_calls = 0
          /\ ~ENABLED Main

C18_Witness ==
    /\ main_pc = "crash_stream"
    /\ files_fetched # <<>>
    /\ \E m \in MsgIds : outcome[m] = "ok" /\ pc[m] = "done"

====
